---- MODULE Spec2Model ----
(***************************************************************************)
(* PyChain (src/pychain.py): a hash-linked ledger with proof-of-work       *)
(* mining, served by a Streamlit script.  The PyChain object returned by   *)
(* setup() is memoised by st.cache and is therefore one object shared by   *)
(* every script run of every browser session.                              *)
(*                                                                         *)
(* Text is modelled as a sequence of character codes: the decimal and hex  *)
(* digits are the codes 0..15, every other character has a code above 15.  *)
(* SHA-256 is modelled by a keyed polynomial fold over the bytes fed to    *)
(* sha.update, rendered as HashLen digits of base HashBase.                *)
(***************************************************************************)
EXTENDS Integers, Sequences, FiniteSets, TLC

(***************************************************************************)
(* Bounds of the model.                                                    *)
(***************************************************************************)
HashBase == 2          \* size of the digest alphabet ('0' is symbol 0)
HashLen == 5           \* characters in a digest
MaxNonce == 6          \* the mining loop is followed up to this nonce
MaxChain == 3          \* blocks in the chain
MaxClock == 2          \* instants the clock runs through
TicksPerSecond == 2    \* instants of the clock in a second
MaxAssign == 1         \* assignments to fields of blocks already in the chain

(***************************************************************************)
(* Constants of the program.                                               *)
(***************************************************************************)
DefaultDifficulty == 4     \* PyChain.difficulty: int = 4
SliderMin == 1             \* st.sidebar.slider("Block Difficulty", 1, 5, 2)
SliderMax == 5
SliderDefault == 2
GenesisCreator == 0        \* Block("Genesis", 0)
AppCreator == 42           \* creator_id=42
DefaultNonce == 0          \* nonce: int = 0
SecondsPerDay == 86400     \* strftime("%H:%M:%S") drops the date

Sessions == {"s1", "s2"}

\* character codes above the digits
Colon == 16
ChG == 17
ChR == 18
ChA == 19
ChB == 20
ChSep == 21
ChEnd == 22

(***************************************************************************)
(* str(): text of the values that are hashed.                              *)
(***************************************************************************)
RECURSIVE IntStr(_)
IntStr(n) == IF n < 10 THEN <<n>> ELSE IntStr(n \div 10) \o <<n % 10>>

Pad2(n) == <<(n \div 10) % 10, n % 10>>

\* datetime.datetime.utcnow().strftime("%H:%M:%S")
StrfTime(t) ==
    LET total == (t \div TicksPerSecond) % SecondsPerDay
    IN  Pad2(total \div 3600) \o <<Colon>> \o Pad2((total \div 60) % 60)
            \o <<Colon>> \o Pad2(total % 60)

\* a Block's record is a Record object or, in the genesis block, a plain str
Text(chars) == [type |-> "str", chars |-> chars]

\* the literal "Genesis"
GenesisRecord == Text(<<ChG>>)

\* Record(sender, receiver, amount): the three texts typed by the user
Record(sender, receiver, amount) ==
    [type |-> "Record", sender |-> sender, receiver |-> receiver,
     amount |-> amount]

\* str(record): the text itself, or the dataclass repr of a Record
StrRecord(r) ==
    IF r.type = "str" THEN r.chars
    ELSE <<ChR>> \o r.sender \o <<ChSep>> \o r.receiver \o <<ChSep>>
            \o r.amount \o <<ChEnd>>

Block(record, creator_id, prev_hash, timestamp, nonce) ==
    [record |-> record, creator_id |-> creator_id, prev_hash |-> prev_hash,
     timestamp |-> timestamp, nonce |-> nonce]

\* prev_hash: str = "0"
DefaultPrevHash == <<0>>

(***************************************************************************)
(* Block.hash_block                                                        *)
(***************************************************************************)
HashMod == HashBase ^ HashLen

\* hashlib.sha256(): the state of a new context
ShaNew == 1

\* sha.update(data): absorb the bytes of data, one after the other, into the
\* running state (a residue modulo the prime 1009)
RECURSIVE ShaUpdate(_, _)
ShaUpdate(h, data) ==
    IF data = <<>> THEN h
    ELSE ShaUpdate((h * 31 + Head(data) + 7) % 1009, Tail(data))

RECURSIVE Digits(_, _)
Digits(h, len) ==
    IF len = 0 THEN <<>>
    ELSE Digits(h \div HashBase, len - 1) \o <<h % HashBase>>

\* sha.hexdigest(): the state, scrambled, as HashLen digits, most
\* significant first
HexDigest(h) == Digits(((h * 613) % 1009) % HashMod, HashLen)

hash_block(b) ==
    LET h1 == ShaUpdate(ShaNew, StrRecord(b.record))
        h2 == ShaUpdate(h1, IntStr(b.creator_id))
        h3 == ShaUpdate(h2, b.timestamp)
        h4 == ShaUpdate(h3, b.prev_hash)
        h5 == ShaUpdate(h4, IntStr(b.nonce))
    IN  HexDigest(h5)

\* "0" * n
Zeros(n) == [i \in 1..n |-> 0]

\* s.startswith(prefix)
StartsWith(s, prefix) ==
    /\ Len(prefix) <= Len(s)
    /\ \A i \in 1..Len(prefix) : s[i] = prefix[i]

(***************************************************************************)
(* PyChain.is_valid                                                        *)
(***************************************************************************)
\* IsValidLoop with line 113 dropped: the running hash is never renewed
RECURSIVE IsValidLoop_stale(_, _)
IsValidLoop_stale(block_hash, rest) ==
    IF rest = <<>> THEN TRUE
    ELSE IF block_hash # Head(rest).prev_hash THEN FALSE
    ELSE IsValidLoop_stale(block_hash, Tail(rest))

\* for block in self.chain[1:]: compare, return False at the first mismatch,
\* else rehash the current block and go on; True when the loop runs out
RECURSIVE IsValidLoop(_, _)
IsValidLoop(block_hash, rest) ==
    IF rest = <<>> THEN TRUE
    ELSE IF block_hash # Head(rest).prev_hash THEN FALSE
    ELSE IsValidLoop(hash_block(Head(rest)), Tail(rest))

\* is_valid walking self.chain[1:-1]: the last block is never compared
is_valid_short(self) ==
    IsValidLoop(hash_block(self.chain[1]),
                SubSeq(self.chain, 2, Len(self.chain) - 1))

\* is_valid that also demands the proof of work at the current difficulty
is_valid_pow(self) ==
    /\ IsValidLoop(hash_block(self.chain[1]), Tail(self.chain))
    /\ \A i \in 2..Len(self.chain) :
          StartsWith(hash_block(self.chain[i]), Zeros(self.difficulty))

\* is_valid comparing the last block with the one before it, and no other
is_valid_last(self) ==
    LET n == Len(self.chain)
    IN  n = 1 \/ self.chain[n].prev_hash = hash_block(self.chain[n - 1])

\* is_valid starting at chain[1]: the genesis block is never hashed
is_valid_skip_genesis(self) ==
    IF Len(self.chain) <= 2 THEN TRUE
    ELSE IsValidLoop(hash_block(self.chain[2]),
                     SubSeq(self.chain, 3, Len(self.chain)))

\* self is the PyChain object: [chain, difficulty]
is_valid(self) == IsValidLoop(hash_block(self.chain[1]), Tail(self.chain))

\* the value a call returned, as the caller holds it
Returned(b) == IF b THEN "True" ELSE "False"

(***************************************************************************)
(* State                                                                   *)
(***************************************************************************)
VARIABLES
    chain,            \* pychain.chain, the cached list of blocks
    difficulty,       \* pychain.difficulty
    clock,            \* UTC wall clock, in instants since the start
    pc,               \* per session: position of its script run
    slider,           \* per session: value of the "Block Difficulty" slider
    button,           \* per session: the button that caused the current run
    input,            \* per session: Record(sender, receiver, amount) typed
    blockTs,          \* per session: Block.timestamp default of the current run
    new_block,        \* per session: the candidate block being mined
    num_of_zeros,     \* per session: proof_of_work's target prefix
    calculated_hash,  \* per session: proof_of_work's last digest
    entered,          \* per session: block as it was when proof_of_work began
    result,           \* per session: what the last is_valid() returned
    sha,              \* per caller: the hashlib context of a hash_block call
    hashed,           \* the last hash_block call: the fields read, the digest
    assigns           \* number of assignments made to fields of chained blocks

vars == <<chain, difficulty, clock, pc, slider, button, input, blockTs,
          new_block, num_of_zeros, calculated_hash, entered, result, sha,
          hashed, assigns>>

pychain == [chain |-> chain, difficulty |-> difficulty]

Clock0 == 0

\* what the user can type into the Sender, Receiver and Amount inputs
InputRecords ==
    {Record(<<ChA>>, <<ChB>>, <<1>>), Record(<<ChB>>, <<ChA>>, <<2>>)}

\* the text inputs left empty
NoRecord == Record(<<>>, <<>>, <<>>)

\* new_block before the handler binds it
NoBlock ==
    Block(GenesisRecord, GenesisCreator, DefaultPrevHash, <<>>, DefaultNonce)

\* setup() seeding the chain with Block("Genesis", 42, "0" * HashLen)
Genesis_seeded(ts) ==
    Block(GenesisRecord, AppCreator, Zeros(HashLen), ts, DefaultNonce)

\* setup(): PyChain([Block("Genesis", 0)]), built once and cached
Genesis(ts) ==
    Block(GenesisRecord, GenesisCreator, DefaultPrevHash, ts, DefaultNonce)

Init ==
    /\ chain = <<Genesis(StrfTime(Clock0))>>
    /\ difficulty = DefaultDifficulty
    /\ clock = Clock0
    /\ pc = [s \in Sessions |-> "new"]
    /\ slider = [s \in Sessions |-> SliderDefault]
    /\ button = [s \in Sessions |-> "none"]
    /\ input = [s \in Sessions |-> NoRecord]
    /\ blockTs = [s \in Sessions |-> <<>>]
    /\ new_block = [s \in Sessions |-> NoBlock]
    /\ num_of_zeros = [s \in Sessions |-> <<>>]
    /\ calculated_hash = [s \in Sessions |-> <<>>]
    /\ entered = [s \in Sessions |-> NoBlock]
    /\ result = [s \in Sessions |-> "none"]
    /\ sha = [s \in Sessions |-> 0]
    /\ hashed = <<>>
    /\ assigns = 0

\* sessions between the press of Add Block and the append of their block
Adding == {s \in Sessions : pc[s] \in {"L145", "L70", "L78", "L94"}}

(***************************************************************************)
(* The clock                                                               *)
(***************************************************************************)
Tick ==
    /\ clock < MaxClock
    /\ clock' = clock + 1
    /\ UNCHANGED <<entered, sha, hashed, assigns, chain, difficulty, pc,
                   slider, button, input, blockTs, new_block, num_of_zeros,
                   calculated_hash, result>>

(***************************************************************************)
(* A script run.  Streamlit executes the whole file from the top for each  *)
(* widget event of a session; line 27 therefore re-evaluates the default   *)
(* of Block.timestamp at the start of every run.  A run's steps that touch *)
(* only the session's own state are taken together with the next step     *)
(* that touches pychain.                                                   *)
(***************************************************************************)
\* a browser opens the page: first run of the session, no button pressed
Connect(s) ==
    /\ pc[s] = "new"
    /\ pc' = [pc EXCEPT ![s] = "L170"]
    /\ button' = [button EXCEPT ![s] = "none"]
    /\ blockTs' = [blockTs EXCEPT ![s] = StrfTime(clock)]
    /\ UNCHANGED <<entered, sha, hashed, assigns, chain, difficulty, clock,
                   slider, input, new_block, num_of_zeros, calculated_hash,
                   result>>

\* the user moves the slider: a run with the new value and no button
MoveSlider(s) ==
    /\ pc[s] = "idle"
    /\ \E v \in SliderMin..SliderMax :
          /\ v # slider[s]
          /\ slider' = [slider EXCEPT ![s] = v]
    /\ pc' = [pc EXCEPT ![s] = "L170"]
    /\ button' = [button EXCEPT ![s] = "none"]
    /\ blockTs' = [blockTs EXCEPT ![s] = StrfTime(clock)]
    /\ UNCHANGED <<entered, sha, hashed, assigns, chain, difficulty, clock,
                   input, new_block, num_of_zeros, calculated_hash, result>>

\* the user presses "Add Block" with some text in the three inputs
\* (line 144: st.button returns True)
PressAddBlock(s) ==
    /\ pc[s] = "idle"
    /\ Len(chain) + Cardinality(Adding) < MaxChain
    /\ \E r \in InputRecords : input' = [input EXCEPT ![s] = r]
    /\ pc' = [pc EXCEPT ![s] = "L145"]
    /\ button' = [button EXCEPT ![s] = "add"]
    /\ blockTs' = [blockTs EXCEPT ![s] = StrfTime(clock)]
    /\ UNCHANGED <<entered, sha, hashed, assigns, chain, difficulty, clock,
                   slider, new_block, num_of_zeros, calculated_hash, result>>

\* the user presses "Validate Chain"
PressValidate(s) ==
    /\ pc[s] = "idle"
    /\ pc' = [pc EXCEPT ![s] = "L170"]
    /\ button' = [button EXCEPT ![s] = "validate"]
    /\ blockTs' = [blockTs EXCEPT ![s] = StrfTime(clock)]
    /\ UNCHANGED <<entered, sha, hashed, assigns, chain, difficulty, clock,
                   slider, input, new_block, num_of_zeros, calculated_hash,
                   result>>

\* ReadTail with chain[0] for chain[-1]
ReadTail_head(s) ==
    /\ pc[s] = "L145"
    /\ LET prev_block == chain[1]
           prev_block_hash == hash_block(prev_block)
       IN  new_block' = [new_block EXCEPT ![s] =
               Block(input[s], AppCreator, prev_block_hash, blockTs[s],
                     DefaultNonce)]
    /\ pc' = [pc EXCEPT ![s] = "L70"]
    /\ UNCHANGED <<entered, sha, hashed, assigns, chain, difficulty, clock,
                   slider, button, input, blockTs, num_of_zeros,
                   calculated_hash, result>>

\* lines 145-156: hash the tail, build the new block on it, call add_block
ReadTail(s) ==
    /\ pc[s] = "L145"
    /\ LET prev_block == chain[Len(chain)]
           prev_block_hash == hash_block(prev_block)
       IN  new_block' = [new_block EXCEPT ![s] =
               Block(input[s], AppCreator, prev_block_hash, blockTs[s],
                     DefaultNonce)]
    /\ pc' = [pc EXCEPT ![s] = "L70"]
    /\ UNCHANGED <<entered, sha, hashed, assigns, chain, difficulty, clock,
                   slider, button, input, blockTs, num_of_zeros,
                   calculated_hash, result>>

(***************************************************************************)
(* PyChain.proof_of_work and PyChain.add_block, run by caller s            *)
(***************************************************************************)
\* lines 70-74: first digest, and the target read from self.difficulty
proof_of_work_enter(s) ==
    /\ pc[s] = "L70"
    /\ calculated_hash' =
          [calculated_hash EXCEPT ![s] = hash_block(new_block[s])]
    /\ num_of_zeros' = [num_of_zeros EXCEPT ![s] = Zeros(difficulty)]
    /\ entered' = [entered EXCEPT ![s] = new_block[s]]
    /\ pc' = [pc EXCEPT ![s] = "L78"]
    /\ UNCHANGED <<sha, hashed, assigns, chain, difficulty, clock, slider,
                   button, input, blockTs, new_block, result>>

\* the loop test looking at the first character of the digest only
Searching_first(s) ==
    num_of_zeros[s] # <<>> /\ calculated_hash[s][1] # 0

\* line 78: the loop test
Searching(s) == ~StartsWith(calculated_hash[s], num_of_zeros[s])

\* the loop giving up after two attempts: while ... and block.nonce < 2
proof_of_work_loop_capped(s) ==
    /\ pc[s] = "L78"
    /\ Searching(s)
    /\ new_block[s].nonce < 2
    /\ LET b == [new_block[s] EXCEPT !.nonce = @ + 1]
       IN  /\ new_block' = [new_block EXCEPT ![s] = b]
           /\ calculated_hash' = [calculated_hash EXCEPT ![s] = hash_block(b)]
    /\ UNCHANGED <<entered, sha, hashed, assigns, chain, difficulty, clock,
                   pc, slider, button, input, blockTs, num_of_zeros, result>>

\* the loop with block.nonce += 2
proof_of_work_loop_stride(s) ==
    /\ pc[s] = "L78"
    /\ Searching(s)
    /\ new_block[s].nonce + 1 < MaxNonce
    /\ LET b == [new_block[s] EXCEPT !.nonce = @ + 2]
       IN  /\ new_block' = [new_block EXCEPT ![s] = b]
           /\ calculated_hash' = [calculated_hash EXCEPT ![s] = hash_block(b)]
    /\ UNCHANGED <<entered, sha, hashed, assigns, chain, difficulty, clock,
                   pc, slider, button, input, blockTs, num_of_zeros, result>>

\* lines 78-82: one turn of the while loop
proof_of_work_loop(s) ==
    /\ pc[s] = "L78"
    /\ Searching(s)
    /\ new_block[s].nonce < MaxNonce
    /\ LET b == [new_block[s] EXCEPT !.nonce = @ + 1]
       IN  /\ new_block' = [new_block EXCEPT ![s] = b]
           /\ calculated_hash' = [calculated_hash EXCEPT ![s] = hash_block(b)]
    /\ UNCHANGED <<entered, sha, hashed, assigns, chain, difficulty, clock,
                   pc, slider, button, input, blockTs, num_of_zeros, result>>

\* lines 78, 85-86: the loop ends, proof_of_work returns the block
proof_of_work_return(s) ==
    /\ pc[s] = "L78"
    /\ ~Searching(s)
    /\ pc' = [pc EXCEPT ![s] = "L94"]
    /\ UNCHANGED <<entered, sha, hashed, assigns, chain, difficulty, clock,
                   slider, button, input, blockTs, new_block, num_of_zeros,
                   calculated_hash, result>>

\* add_block that appends only a block that links to the tail
add_block_append_strict(s, ret) ==
    /\ pc[s] = "L94"
    /\ chain' = IF new_block[s].prev_hash = hash_block(chain[Len(chain)])
                THEN chain \o <<new_block[s]>> ELSE chain
    /\ pc' = [pc EXCEPT ![s] = ret]
    /\ new_block' = [new_block EXCEPT ![s] = NoBlock]
    /\ num_of_zeros' = [num_of_zeros EXCEPT ![s] = <<>>]
    /\ calculated_hash' = [calculated_hash EXCEPT ![s] = <<>>]
    /\ entered' = [entered EXCEPT ![s] = NoBlock]
    /\ UNCHANGED <<sha, hashed, assigns, difficulty, clock, slider, button,
                   input, blockTs, result>>

\* add_block with self.chain = [block] + self.chain
add_block_append_front(s, ret) ==
    /\ pc[s] = "L94"
    /\ chain' = <<new_block[s]>> \o chain
    /\ pc' = [pc EXCEPT ![s] = ret]
    /\ new_block' = [new_block EXCEPT ![s] = NoBlock]
    /\ num_of_zeros' = [num_of_zeros EXCEPT ![s] = <<>>]
    /\ calculated_hash' = [calculated_hash EXCEPT ![s] = <<>>]
    /\ entered' = [entered EXCEPT ![s] = NoBlock]
    /\ UNCHANGED <<sha, hashed, assigns, difficulty, clock, slider, button,
                   input, blockTs, result>>

\* line 94: self.chain += [block]; add_block returns to ret and its names
\* (and proof_of_work's) are gone
add_block_append(s, ret) ==
    /\ pc[s] = "L94"
    /\ chain' = chain \o <<new_block[s]>>
    /\ pc' = [pc EXCEPT ![s] = ret]
    /\ new_block' = [new_block EXCEPT ![s] = NoBlock]
    /\ num_of_zeros' = [num_of_zeros EXCEPT ![s] = <<>>]
    /\ calculated_hash' = [calculated_hash EXCEPT ![s] = <<>>]
    /\ entered' = [entered EXCEPT ![s] = NoBlock]
    /\ UNCHANGED <<sha, hashed, assigns, difficulty, clock, slider, button,
                   input, blockTs, result>>

AppendBlock(s) == add_block_append(s, "L170")

\* the script has run to its end: its module names are gone
EndOfScript(s) ==
    /\ pc' = [pc EXCEPT ![s] = "idle"]
    /\ button' = [button EXCEPT ![s] = "none"]
    /\ input' = [input EXCEPT ![s] = NoRecord]
    /\ blockTs' = [blockTs EXCEPT ![s] = <<>>]

\* lines 169-170: pychain.difficulty = difficulty; then line 183 with the
\* "Validate Chain" button not pressed: the run ends
SetDifficulty(s) ==
    /\ pc[s] = "L170"
    /\ button[s] # "validate"
    /\ difficulty' = slider[s]
    /\ EndOfScript(s)
    /\ UNCHANGED <<entered, sha, hashed, assigns, chain, clock, slider,
                   new_block, num_of_zeros, calculated_hash, result>>

\* lines 169-170 and line 183 with the button pressed
SetDifficultyThenValidate(s) ==
    /\ pc[s] = "L170"
    /\ button[s] = "validate"
    /\ difficulty' = slider[s]
    /\ pc' = [pc EXCEPT ![s] = "L183"]
    /\ UNCHANGED <<entered, sha, hashed, assigns, chain, clock, slider,
                   button, input, blockTs, new_block, num_of_zeros,
                   calculated_hash, result>>

\* line 184, the call: pychain.is_valid()
ValidateChain(s) ==
    /\ pc[s] = "L183"
    /\ result' = [result EXCEPT ![s] = Returned(is_valid(pychain))]
    /\ pc' = [pc EXCEPT ![s] = "L184"]
    /\ UNCHANGED <<entered, sha, hashed, assigns, chain, difficulty, clock,
                   slider, button, input, blockTs, new_block, num_of_zeros,
                   calculated_hash>>

\* line 184, st.write of the returned value: the run ends
WriteResult(s) ==
    /\ pc[s] = "L184"
    /\ result' = [result EXCEPT ![s] = "none"]
    /\ EndOfScript(s)
    /\ UNCHANGED <<entered, sha, hashed, assigns, chain, difficulty, clock,
                   slider, new_block, num_of_zeros, calculated_hash>>

Event(s) ==
    \/ Connect(s)
    \/ MoveSlider(s)
    \/ PressAddBlock(s)
    \/ PressValidate(s)

Step(s) ==
    \/ ReadTail(s)
    \/ proof_of_work_enter(s)
    \/ proof_of_work_loop(s)
    \/ proof_of_work_return(s)
    \/ AppendBlock(s)
    \/ SetDifficulty(s)
    \/ SetDifficultyThenValidate(s)
    \/ ValidateChain(s)
    \/ WriteResult(s)

\* every session runs its script in a thread of its own on the shared pychain
Next ==
    \/ Tick
    \/ \E s \in Sessions : Event(s)
    \/ \E s \in Sessions : Step(s)

Spec == Init /\ [][Next]_vars

(***************************************************************************)
(* The same script with the runs serialized: a widget event is taken only  *)
(* while no run of another session is in progress.                         *)
(***************************************************************************)
Quiet(s) == \A t \in Sessions \ {s} : pc[t] \in {"new", "idle"}

NextSeq ==
    \/ Tick
    \/ \E s \in Sessions : Quiet(s) /\ Event(s)
    \/ \E s \in Sessions : Step(s)

SpecSeq == Init /\ [][NextSeq]_vars

(***************************************************************************)
(* The classes used directly, with no script around them: one caller       *)
(* calls add_block and is_valid, one call at a time, and the difficulty of *)
(* the PyChain object may be assigned at any moment, also during a call    *)
(* (as line 170 of another session's run does).                            *)
(***************************************************************************)
Caller == "s1"

\* the timestamps a block can carry
Timestamps == {StrfTime(t) : t \in 0..MaxClock}

\* a digest that is not the hash of block b
OtherDigest(b) == [hash_block(b) EXCEPT ![HashLen] = (@ + 1) % HashBase]

\* Block.timestamp of a block built without a timestamp argument, the class
\* having been defined once, when the module was loaded
DefaultTimestamp == StrfTime(Clock0)

\* the blocks a caller may construct to append after the current tail: with
\* the tail's hash, the default "0" or another digest as prev_hash, searched
\* from nonce 0 or from a later one
Candidates ==
    LET tail == chain[Len(chain)]
    IN  {Block(r, AppCreator, ph, DefaultTimestamp, n) :
            r \in InputRecords,
            ph \in {hash_block(tail), DefaultPrevHash, OtherDigest(tail)},
            n \in {DefaultNonce, DefaultNonce + 1}}

\* the blocks mine_and_append constructs: on the tail's hash, from nonce 0
LinkedCandidates ==
    {b \in Candidates :
        /\ b.prev_hash = hash_block(chain[Len(chain)])
        /\ b.nonce = DefaultNonce}

InitCore ==
    /\ chain = <<Genesis(DefaultTimestamp)>>
    /\ difficulty = DefaultDifficulty
    /\ clock = Clock0
    /\ pc = [s \in Sessions |-> IF s = Caller THEN "idle" ELSE "new"]
    /\ slider = [s \in Sessions |-> SliderDefault]
    /\ button = [s \in Sessions |-> "none"]
    /\ input = [s \in Sessions |-> NoRecord]
    /\ blockTs = [s \in Sessions |-> <<>>]
    /\ new_block = [s \in Sessions |-> NoBlock]
    /\ num_of_zeros = [s \in Sessions |-> <<>>]
    /\ calculated_hash = [s \in Sessions |-> <<>>]
    /\ entered = [s \in Sessions |-> NoBlock]
    /\ result = [s \in Sessions |-> "none"]
    /\ sha = [s \in Sessions |-> 0]
    /\ hashed = <<>>
    /\ assigns = 0

\* the blocks a caller constructs without a nonce argument
DefaultNonceCandidates == {b \in Candidates : b.nonce = DefaultNonce}

\* pychain.add_block(Block(record, creator_id, prev_hash))
CallAddBlockDefaultNonce(c) ==
    /\ pc[c] = "idle"
    /\ Len(chain) < MaxChain
    /\ \E b \in DefaultNonceCandidates :
          new_block' = [new_block EXCEPT ![c] = b]
    /\ pc' = [pc EXCEPT ![c] = "L70"]
    /\ result' = [result EXCEPT ![c] = "none"]
    /\ UNCHANGED <<entered, sha, hashed, assigns, chain, difficulty, clock,
                   slider, button, input, blockTs, num_of_zeros,
                   calculated_hash>>

\* pychain.add_block(candidate), the candidate's nonce being any
CallAddBlock(c) ==
    /\ pc[c] = "idle"
    /\ Len(chain) < MaxChain
    /\ \E b \in Candidates : new_block' = [new_block EXCEPT ![c] = b]
    /\ pc' = [pc EXCEPT ![c] = "L70"]
    /\ result' = [result EXCEPT ![c] = "none"]
    /\ UNCHANGED <<entered, sha, hashed, assigns, chain, difficulty, clock,
                   slider, button, input, blockTs, num_of_zeros,
                   calculated_hash>>

\* the caller builds a block on the tail's hash and calls add_block
CallMineAndAppend(c) ==
    /\ pc[c] = "idle"
    /\ Len(chain) < MaxChain
    /\ \E b \in LinkedCandidates : new_block' = [new_block EXCEPT ![c] = b]
    /\ pc' = [pc EXCEPT ![c] = "L70"]
    /\ result' = [result EXCEPT ![c] = "none"]
    /\ UNCHANGED <<entered, sha, hashed, assigns, chain, difficulty, clock,
                   slider, button, input, blockTs, num_of_zeros,
                   calculated_hash>>

ReturnFromAddBlock(c) == add_block_append(c, "idle")

\* the assignment followed by a new search on every block of the chain
AssignDifficulty_retro(c) ==
    /\ \E d \in SliderMin..SliderMax : d # difficulty /\ difficulty' = d
    /\ chain' = [i \in 1..Len(chain) |->
                    [chain[i] EXCEPT
                        !.nonce = IF i = 1 THEN @ ELSE DefaultNonce]]
    /\ result' = [result EXCEPT ![c] = "none"]
    /\ UNCHANGED <<entered, sha, hashed, assigns, clock, pc, slider, button,
                   input, blockTs, new_block, num_of_zeros, calculated_hash>>

\* pychain.difficulty = value, at any moment
AssignDifficulty(c) ==
    /\ \E d \in SliderMin..SliderMax : d # difficulty /\ difficulty' = d
    /\ result' = [result EXCEPT ![c] = "none"]
    /\ UNCHANGED <<entered, sha, hashed, assigns, chain, clock, pc, slider,
                   button, input, blockTs, new_block, num_of_zeros,
                   calculated_hash>>

\* pychain.difficulty = value by the caller, between its calls
AssignDifficultyBetweenCalls(c) ==
    /\ pc[c] = "idle"
    /\ AssignDifficulty(c)

\* pychain.is_valid()
CallIsValid(c) ==
    /\ pc[c] = "idle"
    /\ result' = [result EXCEPT ![c] = Returned(is_valid(pychain))]
    /\ UNCHANGED <<entered, sha, hashed, assigns, chain, difficulty, clock,
                   pc, slider, button, input, blockTs, new_block,
                   num_of_zeros, calculated_hash>>

\* The dataclasses are not frozen: a holder of the chain can assign to any
\* field of any block in it.
FieldValues(i, f) ==
    CASE f = "record" -> InputRecords
      [] f = "creator_id" -> {GenesisCreator, AppCreator}
      [] f = "timestamp" -> Timestamps
      [] f = "nonce" -> {DefaultNonce, chain[i].nonce + 1}
      [] f = "prev_hash" -> {DefaultPrevHash, OtherDigest(chain[i])}

Fields == {"record", "creator_id", "timestamp", "nonce", "prev_hash"}

AssignField(c) ==
    /\ pc[c] = "idle"
    /\ assigns < MaxAssign
    /\ assigns' = assigns + 1
    /\ \E i \in 1..Len(chain), f \in Fields :
         \E v \in FieldValues(i, f) :
            /\ v # chain[i][f]
            /\ f = "nonce" => v <= MaxNonce
            /\ chain' = [chain EXCEPT ![i][f] = v]
    /\ result' = [result EXCEPT ![c] = "none"]
    /\ UNCHANGED <<entered, sha, hashed, difficulty, clock, pc, slider,
                   button, input, blockTs, new_block, num_of_zeros,
                   calculated_hash>>

NextCore ==
    \/ CallAddBlockDefaultNonce(Caller)
    \/ proof_of_work_enter(Caller)
    \/ proof_of_work_loop(Caller)
    \/ proof_of_work_return(Caller)
    \/ ReturnFromAddBlock(Caller)
    \/ AssignDifficulty(Caller)
    \/ CallIsValid(Caller)

SpecCore == InitCore /\ [][NextCore]_vars

(***************************************************************************)
(* The same caller only adding blocks, and assigning the difficulty        *)
(* between its calls.  Its thread keeps running: a statement of add_block  *)
(* or of proof_of_work that can be executed is executed.                   *)
(***************************************************************************)
\* the statements of a call of add_block that is in progress
RunAddBlock(c) ==
    \/ proof_of_work_enter(c)
    \/ proof_of_work_loop(c)
    \/ proof_of_work_return(c)
    \/ ReturnFromAddBlock(c)

NextMine ==
    \/ CallAddBlock(Caller)
    \/ proof_of_work_enter(Caller)
    \/ proof_of_work_loop(Caller)
    \/ proof_of_work_return(Caller)
    \/ ReturnFromAddBlock(Caller)
    \/ AssignDifficultyBetweenCalls(Caller)

SpecMine == InitCore /\ [][NextMine]_vars /\ WF_vars(RunAddBlock(Caller))

(***************************************************************************)
(* The same caller building every block on the tail's hash, and assigning  *)
(* to fields of blocks of a chain that it has validated.                   *)
(***************************************************************************)
\* the caller assigns to a field of a block of the chain that is_valid() has
\* just reported valid
AssignFieldOfValidChain(c) ==
    /\ result[c] = "True"
    /\ AssignField(c)

NextTamper ==
    \/ CallMineAndAppend(Caller)
    \/ proof_of_work_enter(Caller)
    \/ proof_of_work_loop(Caller)
    \/ proof_of_work_return(Caller)
    \/ ReturnFromAddBlock(Caller)
    \/ AssignDifficultyBetweenCalls(Caller)
    \/ CallIsValid(Caller)
    \/ AssignFieldOfValidChain(Caller)

SpecTamper == InitCore /\ [][NextTamper]_vars

(***************************************************************************)
(* Block.hash_block, statement by statement, called by one caller on the   *)
(* block chain[0] for every block of a bounded set.                        *)
(***************************************************************************)
\* the field hash_block encodes at each of its lines
FieldAt(line) ==
    CASE line = "L38" -> "record"
      [] line = "L41" -> "creator_id"
      [] line = "L44" -> "timestamp"
      [] line = "L47" -> "prev_hash"
      [] line = "L50" -> "nonce"

LineAfter(line) ==
    CASE line = "L38" -> "L41"
      [] line = "L41" -> "L44"
      [] line = "L44" -> "L47"
      [] line = "L47" -> "L50"
      [] line = "L50" -> "L54"

\* str(self.<field>).encode()
Encode(b, f) ==
    CASE f = "record" -> StrRecord(b.record)
      [] f = "creator_id" -> IntStr(b.creator_id)
      [] f = "timestamp" -> b.timestamp
      [] f = "prev_hash" -> b.prev_hash
      [] f = "nonce" -> IntStr(b.nonce)

HashLines == {"L38", "L41", "L44", "L47", "L50"}

\* hash_block with one context made when the module is loaded, not per call
hash_block_new_shared(c) ==
    /\ pc[c] = "idle"
    /\ pc' = [pc EXCEPT ![c] = "L38"]
    /\ UNCHANGED <<entered, sha, hashed, assigns, chain, difficulty, clock,
                   slider, button, input, blockTs, new_block, num_of_zeros,
                   calculated_hash, result>>

\* line 35: sha = hashlib.sha256()
hash_block_new(c) ==
    /\ pc[c] = "idle"
    /\ sha' = [sha EXCEPT ![c] = ShaNew]
    /\ pc' = [pc EXCEPT ![c] = "L38"]
    /\ UNCHANGED <<entered, hashed, assigns, chain, difficulty, clock, slider,
                   button, input, blockTs, new_block, num_of_zeros,
                   calculated_hash, result>>

\* lines 38-51: encode the next field and sha.update it
hash_block_update(c) ==
    /\ pc[c] \in HashLines
    /\ sha' = [sha EXCEPT ![c] = ShaUpdate(@, Encode(chain[1], FieldAt(pc[c])))]
    /\ pc' = [pc EXCEPT ![c] = LineAfter(pc[c])]
    /\ UNCHANGED <<entered, hashed, assigns, chain, difficulty, clock, slider,
                   button, input, blockTs, new_block, num_of_zeros,
                   calculated_hash, result>>

\* line 54: return sha.hexdigest()
hash_block_return(c) ==
    /\ pc[c] = "L54"
    /\ hashed' = <<[block |-> chain[1], digest |-> HexDigest(sha[c])]>>
    /\ pc' = [pc EXCEPT ![c] = "idle"]
    /\ UNCHANGED <<entered, sha, assigns, chain, difficulty, clock, slider,
                   button, input, blockTs, new_block, num_of_zeros,
                   calculated_hash, result>>

\* the blocks hash_block is called on
HashInputs ==
    {Block(r, cid, ph, ts, n) :
        r \in InputRecords \cup {GenesisRecord},
        cid \in {GenesisCreator, AppCreator},
        ph \in {DefaultPrevHash, Zeros(HashLen)},
        ts \in Timestamps,
        n \in 0..MaxNonce}

InitHash ==
    /\ chain \in {<<b>> : b \in HashInputs}
    /\ difficulty = DefaultDifficulty
    /\ clock = Clock0
    /\ pc = [s \in Sessions |-> IF s = Caller THEN "idle" ELSE "new"]
    /\ slider = [s \in Sessions |-> SliderDefault]
    /\ button = [s \in Sessions |-> "none"]
    /\ input = [s \in Sessions |-> NoRecord]
    /\ blockTs = [s \in Sessions |-> <<>>]
    /\ new_block = [s \in Sessions |-> NoBlock]
    /\ num_of_zeros = [s \in Sessions |-> <<>>]
    /\ calculated_hash = [s \in Sessions |-> <<>>]
    /\ entered = [s \in Sessions |-> NoBlock]
    /\ result = [s \in Sessions |-> "none"]
    /\ sha = [s \in Sessions |-> 0]
    /\ hashed = <<>>
    /\ assigns = 0

NextHash ==
    \/ hash_block_new(Caller)
    \/ hash_block_update(Caller)
    \/ hash_block_return(Caller)
    \/ AssignField(Caller)

SpecHash == InitHash /\ [][NextHash]_vars

(***************************************************************************)
(* Properties                                                              *)
(***************************************************************************)
\* every stored prev_hash is the hash of the block before it, recomputed
LinksOK(ch) ==
    \A i \in 2..Len(ch) : ch[i].prev_hash = hash_block(ch[i - 1])

\* C1: for a chain of length >= 1, is_valid() returns true if and only if
\* every block after the first stores as prev_hash the hash of its
\* predecessor recomputed from the predecessor's current fields; it returns
\* false exactly when some link mismatches.
C1_IsValidIffLinks ==
    /\ Len(chain) >= 1
    /\ is_valid(pychain) = LinksOK(chain)
    /\ result[Caller] # "none" => result[Caller] = Returned(LinksOK(chain))

\* is_valid() has returned false on three blocks whose first link holds and
\* whose second link is broken
C1_Witness ==
    /\ result[Caller] = "False"
    /\ Len(chain) = 3
    /\ chain[2].prev_hash = hash_block(chain[1])
    /\ chain[3].prev_hash # hash_block(chain[2])

\* C2: from the fresh chain, after any sequence of Add Block flows run one
\* after the other, with difficulty changes between them, is_valid() is true.
C2_SequentialAddsKeepValid ==
    /\ is_valid(pychain)
    /\ \A s \in Sessions : result[s] # "False"

\* three blocks, the two added ones mined to different nonces, reported valid
C2_Witness ==
    /\ Len(chain) >= 3
    /\ chain[2].nonce # chain[3].nonce
    /\ \E s \in Sessions : result[s] = "True"

\* C3: when proof_of_work(b) returns, hash_block(b) begins with d '0'
\* characters, d being the chain's difficulty when the call started; so every
\* block add_block appends has, when appended, a hash meeting the difficulty
\* in effect when it was mined.
C3_ProofOfWorkPostcondition ==
    [][\A s \in Sessions :
         /\ (pc[s] = "L70" /\ pc'[s] = "L78")
               => num_of_zeros'[s] = Zeros(difficulty)
         /\ pc[s] = "L78" => num_of_zeros'[s] = num_of_zeros[s]
         /\ (pc[s] = "L78" /\ pc'[s] = "L94")
               => StartsWith(hash_block(new_block'[s]), num_of_zeros[s])
         /\ (pc[s] = "L94" /\ pc'[s] # "L94")
               => /\ chain' = Append(chain, new_block[s])
                  /\ StartsWith(hash_block(chain'[Len(chain')]),
                                num_of_zeros[s])]_vars

\* proof_of_work has returned a block it had to search for, while the
\* difficulty is no longer the one the call started with
C3_Witness ==
    \E s \in Sessions :
        /\ pc[s] = "L94"
        /\ new_block[s].nonce > DefaultNonce
        /\ Len(num_of_zeros[s]) >= 2
        /\ difficulty # Len(num_of_zeros[s])

\* C4: add_block never rejects a candidate: one whose prev_hash is not the
\* hash of the current tail is appended all the same (the chain is longer by
\* exactly 1 and ends with the candidate), and is_valid() is false after it.
C4_AppendAlwaysSucceeds ==
    [][/\ (pc[Caller] \in {"L70", "L78", "L94"} /\ pc'[Caller] = "idle")
            => /\ pc[Caller] = "L94"
               /\ Len(chain') = Len(chain) + 1
               /\ chain'[Len(chain')] = new_block[Caller]
               /\ new_block[Caller].prev_hash # hash_block(chain[Len(chain)])
                     => ~is_valid(pychain')
       /\ (result'[Caller] # "none" /\ Len(chain) >= 2 /\ assigns = 0
             /\ chain[Len(chain)].prev_hash # hash_block(chain[Len(chain) - 1]))
            => result'[Caller] = "False"]_vars

\* a candidate with a wrong prev_hash is the last block of a chain nobody
\* assigned to, and is_valid() has returned false
C4_Witness ==
    /\ assigns = 0
    /\ Len(chain) = 2
    /\ chain[2].prev_hash # hash_block(chain[1])
    /\ result[Caller] = "False"

\* C5: the chain only grows at the tail: an add_block step with a fresh
\* candidate makes it longer by exactly 1 and keeps the previous chain as an
\* unchanged prefix; no add_block, difficulty change or is_valid ever
\* shortens or reorders it.
C5_GrowsOnlyAtTail ==
    [][/\ \/ chain' = chain
          \/ /\ Len(chain') = Len(chain) + 1
             /\ SubSeq(chain', 1, Len(chain)) = chain
       /\ \A s \in Sessions :
            (pc[s] = "L94" /\ pc'[s] # "L94")
               => /\ Len(chain') = Len(chain) + 1
                  /\ SubSeq(chain', 1, Len(chain)) = chain
                  /\ chain'[Len(chain')] = new_block[s]]_vars

\* two mined blocks follow the genesis block
C5_Witness ==
    /\ Len(chain) >= 3
    /\ chain[1] = Genesis(StrfTime(Clock0))
    /\ chain[2].nonce > DefaultNonce
    /\ chain[3].creator_id = AppCreator

\* C6: a change of the difficulty is prospective only: the assignment leaves
\* the chain and every appended block's fields, nonce and hash as they were,
\* and the target of a search in progress; only a proof_of_work call that
\* starts afterwards uses the new value.
C6_DifficultyProspective ==
    [][/\ difficulty' # difficulty
            => /\ chain' = chain
               /\ new_block' = new_block
               /\ num_of_zeros' = num_of_zeros
       /\ \A s \in Sessions :
            num_of_zeros'[s] # num_of_zeros[s]
               => \/ pc[s] = "L70" /\ num_of_zeros'[s] = Zeros(difficulty)
                  \/ pc[s] = "L94" /\ num_of_zeros'[s] = <<>>]_vars

\* a block mined at a lower difficulty sits in the chain after the
\* difficulty was raised, and a search with the older target is in progress
C6_Witness ==
    /\ Len(chain) >= 2
    /\ chain[2].nonce > DefaultNonce
    /\ ~StartsWith(hash_block(chain[2]), Zeros(difficulty))
    /\ \E s \in Sessions :
          pc[s] = "L78" /\ Len(num_of_zeros[s]) < difficulty

\* C7: in a valid chain of at least 3 blocks, changing the record of block[1]
\* so that its hash changes, every stored prev_hash staying as it was, makes
\* is_valid() return false.
C7_TamperDetected ==
    [][(/\ Len(chain) >= 3
        /\ Len(chain') = Len(chain)
        /\ chain'[2].record # chain[2].record
        /\ chain' = [chain EXCEPT ![2].record = chain'[2].record]
        /\ hash_block(chain'[2]) # hash_block(chain[2])
        /\ is_valid(pychain))
          => /\ ~is_valid(pychain')
             /\ result'[Caller] # "True"]_vars

\* block[2] still stores the hash block[1] had with another record; is_valid()
\* returned false
C7_Witness ==
    /\ assigns = 1
    /\ Len(chain) = 3
    /\ chain[2].prev_hash = hash_block(chain[1])
    /\ chain[3].prev_hash # hash_block(chain[2])
    /\ \E r \in InputRecords :
          /\ r # chain[2].record
          /\ chain[3].prev_hash = hash_block([chain[2] EXCEPT !.record = r])
    /\ result[Caller] = "False"

\* C8: mutations of the shared chain are serialized: at most one Add Block
\* flow (read the tail's hash, mine, append) is in progress on the cached
\* chain at any time, so no other append happens between a flow's read of
\* the tail's hash and its own append, and every appended block's prev_hash
\* is the hash of the block directly before it.
C8_SerializedAppends ==
    [][\A s \in Sessions :
         (pc[s] = "L94" /\ pc'[s] # "L94")
            => /\ new_block[s].prev_hash = hash_block(chain[Len(chain)])
               /\ LinksOK(chain')]_vars

\* C9: is_valid() checks link integrity only and is read-only: it leaves the
\* chain, every block field and the difficulty unchanged, and its result does
\* not depend on the difficulty or on any block's hash meeting a leading-zero
\* target.
C9_IsValidLinksOnlyReadOnly ==
    /\ [](\A d \in SliderMin..SliderMax :
            is_valid([chain |-> chain, difficulty |-> d]) = is_valid(pychain))
    /\ [](LinksOK(chain) /\ result[Caller] # "none" => result[Caller] = "True")
    /\ [][result'[Caller] # "none"
            => /\ chain' = chain
               /\ difficulty' = difficulty
               /\ result'[Caller] = Returned(is_valid(pychain))]_vars

\* is_valid() returned true on a chain of three blocks whose links hold and
\* whose mined blocks do not meet the current difficulty
C9_Witness ==
    /\ result[Caller] = "True"
    /\ Len(chain) >= 3
    /\ chain[2].nonce > DefaultNonce
    /\ ~StartsWith(hash_block(chain[2]), Zeros(difficulty))
    /\ ~StartsWith(hash_block(chain[3]), Zeros(difficulty))

\* C10: hash_block is a deterministic, side-effect-free function of exactly
\* the five fields record, creator_id, timestamp, prev_hash and nonce: two
\* calls on a block with identical field values return the identical digest,
\* and a call changes no field of the block.
C10_HashDeterministicPure ==
    [][/\ pc[Caller] # "idle" => chain' = chain
       /\ (pc[Caller] = "L54" /\ pc'[Caller] = "idle")
            => /\ Len(hashed') = 1
               /\ hashed'[1].block = chain[1]
               /\ hashed'[1].digest = hash_block(chain[1])
               /\ (Len(hashed) = 1 /\ hashed[1].block = chain[1])
                     => hashed'[1].digest = hashed[1].digest]_vars

\* the second of two calls on the same field values is about to return, the
\* context holding what the five fields of the block were folded into
C10_Witness ==
    /\ pc[Caller] = "L54"
    /\ Len(hashed) = 1
    /\ hashed[1].block = chain[1]
    /\ hashed[1].digest = HexDigest(sha[Caller])
    /\ chain[1].nonce > DefaultNonce
    /\ assigns = 1

\* C11: a freshly constructed chain (setup) holds exactly one block, the
\* genesis block, with record "Genesis", creator_id 0, prev_hash "0" and
\* nonce 0, and is_valid() reports that one-block chain valid.
C11_FreshChainGenesis ==
    /\ (\A s \in Sessions : pc[s] = "new") => Len(chain) = 1
    /\ Len(chain) >= 1
    /\ chain[1].record = GenesisRecord
    /\ chain[1].creator_id = GenesisCreator
    /\ chain[1].creator_id = 0
    /\ chain[1].prev_hash = DefaultPrevHash
    /\ chain[1].nonce = DefaultNonce
    /\ chain[1].nonce = 0
    /\ Len(chain) = 1
          => /\ is_valid(pychain)
             /\ \A s \in Sessions : result[s] # "False"

\* a session validated the chain before any block was added to it, and
\* is_valid() returned true
C11_Witness ==
    /\ chain = <<Genesis(StrfTime(Clock0))>>
    /\ \E s \in Sessions : pc[s] = "L184" /\ result[s] = "True"

\* the hash of block b with nonce n begins with the target prefix
MeetsAt(b, n, target) ==
    StartsWith(hash_block([b EXCEPT !.nonce = n]), target)

\* C12: proof_of_work(b) entered with nonce n0 (possibly nonzero) returns b
\* with nonce the least n >= n0 whose hash meets the target; if the hash at
\* n0 meets it the nonce is left as it was; the nonce never decreases, no
\* other field of b changes, and the chain is not changed.
C12_LeastNonceFromStart ==
    [][\A s \in Sessions :
         LET b == new_block'[s]
             e == entered'[s]
             target == num_of_zeros'[s]
         IN  /\ (pc[s] = "L70" /\ pc'[s] = "L78")
                   => /\ e = new_block[s]
                      /\ b = new_block[s]
             /\ pc'[s] \in {"L78", "L94"}
                   => /\ b = [e EXCEPT !.nonce = b.nonce]
                      /\ b.nonce >= e.nonce
                      /\ \A n \in e.nonce..(b.nonce - 1) :
                            ~MeetsAt(e, n, target)
             /\ (pc[s] = "L78" /\ pc'[s] = "L78")
                   => /\ b.nonce >= new_block[s].nonce
                      /\ e = entered[s]
                      /\ target = num_of_zeros[s]
             /\ (pc[s] = "L78" /\ pc'[s] = "L94")
                   => /\ MeetsAt(e, b.nonce, target)
                      /\ MeetsAt(e, e.nonce, target) => b = e
                      /\ e = entered[s]
                      /\ target = num_of_zeros[s]
             /\ pc[s] \in {"L70", "L78"} => chain' = chain]_vars

\* proof_of_work, entered with nonce 1, has returned the block with a later
\* nonce, although the hash with nonce 0 meets the target too
C12_Witness ==
    \E s \in Sessions :
        /\ pc[s] = "L94"
        /\ entered[s].nonce = DefaultNonce + 1
        /\ new_block[s].nonce > entered[s].nonce + 1
        /\ MeetsAt(entered[s], DefaultNonce, num_of_zeros[s])

\* some nonce from the one proof_of_work was entered with, up to the last
\* one the search is followed to, gives a hash meeting the target
WinnerWithin(s) ==
    \E n \in entered[s].nonce..MaxNonce :
        MeetsAt(entered[s], n, num_of_zeros[s])

\* C13: mining has no attempt cap and no failure outcome: proof_of_work
\* returns if and only if some nonce from the starting one on meets the
\* target; then add_block completes with the block appended; if none does
\* (here: none up to MaxNonce) the call does not return and it leaves the
\* chain as it is.
C13_MiningTerminatesIffWinner ==
    /\ (pc[Caller] = "L78" /\ WinnerWithin(Caller)) ~> pc[Caller] = "idle"
    /\ [](( /\ pc[Caller] = "L78"
            /\ Searching(Caller)
            /\ new_block[Caller].nonce < MaxNonce)
              => ENABLED proof_of_work_loop(Caller))
    /\ [](pc[Caller] = "L94" => WinnerWithin(Caller))
    /\ [][/\ pc[Caller] = "L78"
                => /\ pc'[Caller] \in {"L78", "L94"}
                   /\ chain' = chain
          /\ pc[Caller] = "L94"
                => /\ pc'[Caller] \in {"L94", "idle"}
                   /\ pc'[Caller] = "idle"
                         => chain' = Append(chain, new_block[Caller])]_vars

\* a block found at its fourth attempt or later is in the chain, and a
\* second search has run through every nonce up to MaxNonce without a hit
C13_Witness ==
    /\ Len(chain) >= 2
    /\ chain[2].nonce >= 3
    /\ pc[Caller] = "L78"
    /\ ~WinnerWithin(Caller)
    /\ new_block[Caller].nonce = MaxNonce

\* C14: a Block's timestamp is the wall-clock time captured once at that
\* block's own construction (so blocks built by the Add Block flow at
\* different clock times carry different timestamps), and it never changes
\* afterwards.
C14_TimestampAtConstruction ==
    [][/\ \A s \in Sessions :
            (pc[s] = "L145" /\ pc'[s] = "L70")
               => new_block'[s].timestamp = StrfTime(clock)
       /\ \A s \in Sessions :
            pc[s] \in {"L70", "L78"}
               => new_block'[s].timestamp = new_block[s].timestamp
       /\ \A i \in 1..Len(chain) :
            chain'[i].timestamp = chain[i].timestamp]_vars

\* the fields of the last block that no later block's prev_hash covers
ContentFields == {"record", "creator_id", "timestamp", "nonce"}

\* the step assigns to field f of block i and to nothing else of the chain
AssignsOnly(i, f) ==
    /\ Len(chain') = Len(chain)
    /\ chain'[i][f] # chain[i][f]
    /\ chain' = [chain EXCEPT ![i][f] = chain'[i][f]]

\* C15 as stated: in a valid chain, changing the record, creator_id,
\* timestamp or nonce of the last block, or the prev_hash of block 0, leaves
\* is_valid() returning true; every single-block chain is reported valid.
C15_LastBlockAndGenesisPrevHashIgnored ==
    /\ [](Len(chain) = 1 => is_valid(pychain))
    /\ [][/\ ( /\ \E f \in ContentFields : AssignsOnly(Len(chain), f)
               /\ is_valid(pychain))
                => is_valid(pychain')
          /\ (AssignsOnly(1, "prev_hash") /\ is_valid(pychain))
                => is_valid(pychain')]_vars

\* C15, amended: in a valid chain, changing the record, creator_id, timestamp
\* or nonce of the last block leaves is_valid() returning true, and every
\* single-block chain is reported valid; changing the prev_hash of block 0
\* leaves it true only if the chain has that one block or the hash of block 0
\* stays the same, and makes it false in every other case, block 0 being
\* hashed with its prev_hash for the comparison with block 1.
C15_LastBlockContentsIgnored ==
    /\ [](Len(chain) = 1
            => /\ is_valid(pychain)
               /\ result[Caller] # "False")
    /\ [][/\ ( /\ \E f \in ContentFields : AssignsOnly(Len(chain), f)
               /\ is_valid(pychain))
                => is_valid(pychain')
          /\ (AssignsOnly(1, "prev_hash") /\ is_valid(pychain))
                => is_valid(pychain')
                      = \/ Len(chain) = 1
                        \/ hash_block(chain'[1]) = hash_block(chain[1])]_vars

\* block 0 of a chain of three linked blocks was given another prev_hash:
\* block 1 still stores the hash block 0 had with "0", the link from block 1
\* to block 2 holds, and is_valid() has returned false
C15_Witness ==
    /\ assigns = 1
    /\ Len(chain) = 3
    /\ chain[1].prev_hash # DefaultPrevHash
    /\ chain[2].prev_hash
          = hash_block([chain[1] EXCEPT !.prev_hash = DefaultPrevHash])
    /\ chain[2].prev_hash # hash_block(chain[1])
    /\ chain[3].prev_hash = hash_block(chain[2])
    /\ result[Caller] = "False"

\* C16: invalidity is permanent: once is_valid() returns false it returns
\* false after any further add_block calls with freshly constructed
\* candidates and any difficulty changes, no operation modifying or removing
\* a block already appended.
C16_InvalidityPermanent ==
    [][/\ Len(chain') >= Len(chain)
       /\ SubSeq(chain', 1, Len(chain)) = chain
       /\ ~is_valid(pychain)
             => /\ ~is_valid(pychain')
                /\ result'[Caller] # "True"]_vars

\* a block that does not link to the genesis block was followed by one that
\* links to it, the difficulty was changed, and is_valid() has returned false
C16_Witness ==
    /\ Len(chain) = 3
    /\ chain[2].prev_hash # hash_block(chain[1])
    /\ chain[3].prev_hash = hash_block(chain[2])
    /\ StartsWith(hash_block(chain[3]), Zeros(DefaultDifficulty))
    /\ difficulty # DefaultDifficulty
    /\ result[Caller] = "False"

====
